---- MODULE Spec2Model ----
(***************************************************************************)
(* A model of taichi/backends/vulkan/vulkan_api.cpp: the managed Vulkan    *)
(* device (physical device selection, logical device, command pool), the   *)
(* command builders, and the stream that submits command buffers to the    *)
(* compute queue.                                                          *)
(*                                                                         *)
(* The Vulkan driver is the environment.  A call that returns a VkResult   *)
(* may report failure; BAIL_ON_VK_BAD_RESULT and TI_ASSERT_INFO turn a     *)
(* failure into a C++ exception that leaves the running operation.         *)
(***************************************************************************)
EXTENDS Integers, Sequences, FiniteSets, TLC

\* ------------------------------------------------------------------ bounds

\* Physical devices the instance enumerates, at most.
MaxDevices == 2
\* Queue families of one physical device, at most.
MaxFamilies == 2
\* Extensions the selected physical device reports, at most.
MaxExtensions == 2

\* ------------------------------------------------------------- Vulkan names

VK_NULL_HANDLE == 0

\* std::optional<uint32_t> without a value (VulkanQueueFamilyIndices).
NoFamily == -1

\* The queue capability bits a family may report.
VK_QUEUE_GRAPHICS_BIT == "graphics"
VK_QUEUE_COMPUTE_BIT == "compute"
VK_QUEUE_TRANSFER_BIT == "transfer"
VK_QUEUE_SPARSE_BINDING_BIT == "sparse"

\* The queueFlags values the enumerated families are drawn from.
QueueFlagChoices ==
  { {VK_QUEUE_GRAPHICS_BIT, VK_QUEUE_TRANSFER_BIT},
    {VK_QUEUE_COMPUTE_BIT, VK_QUEUE_TRANSFER_BIT},
    {VK_QUEUE_GRAPHICS_BIT, VK_QUEUE_COMPUTE_BIT} }

SeqsUpTo(S, n) == UNION { [1..k -> S] : k \in 0..n }

\* What vkGetPhysicalDeviceQueueFamilyProperties may report for one device.
FamilyLists == SeqsUpTo(QueueFlagChoices, MaxFamilies)

\* What vkEnumeratePhysicalDevices may report.
DeviceLists == SeqsUpTo(FamilyLists, MaxDevices)

VARIABLES
  physical_devices,   \* the environment: each device's queue family flags
  dev,                \* the ManagedVulkanDevice object
  calls,              \* the Vulkan calls the most recent operation issued
  outcome,            \* how the most recent operation ended
  builders,           \* the command builder objects constructed so far
  cmdbufs,            \* the driver's command buffers, by handle
  handles,            \* the handles build() and record_copy_buffer_command
                      \* have returned to the caller
  submitted,          \* the handles vkQueueSubmit accepted, in order
  gpu,                \* the queue's progress on them and the buffers' contents
  pipe,               \* the VulkanPipeline object and the driver objects it made
  proc                \* "running", or "terminated" (std::terminate, a crash)

devVars == <<physical_devices, dev>>

cmdVars == <<builders, cmdbufs, handles, submitted, gpu, pipe, proc>>

vars == <<devVars, calls, outcome, cmdVars>>

\* ------------------------------------------------------ find_queue_families

\* kFlagMask & queueFlags: the transfer and sparse-binding bits are dropped.
MaskedFlags(flags) ==
  flags \ {VK_QUEUE_TRANSFER_BIT, VK_QUEUE_SPARSE_BINDING_BIT}

\* The first loop, from index i (0-based, as in the code): the first family
\* with the compute bit and without the graphics bit completes the indices.
RECURSIVE ComputeOnlyFrom(_, _)
ComputeOnlyFrom(families, i) ==
  IF i >= Len(families) THEN NoFamily
  ELSE IF /\ VK_QUEUE_COMPUTE_BIT \in MaskedFlags(families[i + 1])
          /\ VK_QUEUE_GRAPHICS_BIT \notin MaskedFlags(families[i + 1])
       THEN i
       ELSE ComputeOnlyFrom(families, i + 1)

\* The second loop: the first family with the compute bit.
RECURSIVE AnyComputeFrom(_, _)
AnyComputeFrom(families, i) ==
  IF i >= Len(families) THEN NoFamily
  ELSE IF VK_QUEUE_COMPUTE_BIT \in MaskedFlags(families[i + 1])
       THEN i
       ELSE AnyComputeFrom(families, i + 1)

\* A faulty find_queue_families: the loops do not return at the first
\* complete index, so the last matching family wins.
RECURSIVE LastAnyCompute(_, _)
LastAnyCompute(families, i) ==
  IF i < 0 THEN NoFamily
  ELSE IF VK_QUEUE_COMPUTE_BIT \in MaskedFlags(families[i + 1])
       THEN i
       ELSE LastAnyCompute(families, i - 1)

find_queue_families_last(families) ==
  LastAnyCompute(families, Len(families) - 1)

find_queue_families(families) ==
  IF ComputeOnlyFrom(families, 0) # NoFamily
  THEN ComputeOnlyFrom(families, 0)
  ELSE AnyComputeFrom(families, 0)

\* A faulty is_device_suitable: any device with a queue family is taken.
is_device_suitable_any(families) == Len(families) > 0

is_device_suitable(families) == find_queue_families(families) # NoFamily

\* ------------------------------------------------------ ManagedVulkanDevice

\* The driver calls of the constructor that may report failure ("none": all
\* succeed; "layers": check_validation_layer_support() returns false).
DeviceFailures ==
  { "none", "layers", "vkCreateInstance", "vkCreateDebugUtilsMessengerEXT",
    "vkCreateDevice", "vkCreateCommandPool" }

\* The members of a ManagedVulkanDevice before its constructor has run.
NoDevice ==
  [ status |-> "none",
    instance_ |-> VK_NULL_HANDLE,
    debug_messenger_ |-> VK_NULL_HANDLE,
    physical_device_ |-> VK_NULL_HANDLE,
    compute_family |-> NoFamily,
    device_ |-> VK_NULL_HANDLE,
    compute_queue_ |-> VK_NULL_HANDLE,
    command_pool_ |-> VK_NULL_HANDLE ]

\* A running constructor: the members so far, the calls issued so far and
\* the exception in flight ("" while none is).
Running(d) == [ d |-> d, calls |-> <<>>, err |-> "" ]

\* One driver call, with the handle it is given (0 where it takes none).
VkCall(name, arg) == [ call |-> name, arg |-> arg ]

Call(c, name) == [c EXCEPT !.calls = Append(@, VkCall(name, VK_NULL_HANDLE))]

Throw(c, msg) == [c EXCEPT !.err = msg]

create_instance(c, fail) ==
  IF c.err # "" THEN c
  ELSE LET c1 == Call(Call(c, "vkEnumerateInstanceLayerProperties"),
                      "vkEnumerateInstanceLayerProperties")
       IN IF fail = "layers"
          THEN Throw(c1, "validation layers requested but not available")
          ELSE LET c2 == Call(c1, "vkCreateInstance")
               IN IF fail = "vkCreateInstance"
                  THEN Throw(c2, "failed to create instance")
                  ELSE [c2 EXCEPT !.d.instance_ = 1]

setup_debug_messenger(c, fail) ==
  IF c.err # "" THEN c
  ELSE LET c1 == Call(c, "vkCreateDebugUtilsMessengerEXT")
       IN IF fail = "vkCreateDebugUtilsMessengerEXT"
          THEN Throw(c1, "failed to set up debug messenger")
          ELSE [c1 EXCEPT !.d.debug_messenger_ = 1]

\* The loop of pick_physical_device from device i (1-based handle): the
\* first suitable device, or VK_NULL_HANDLE.
RECURSIVE FirstSuitableFrom(_, _)
FirstSuitableFrom(devices, i) ==
  IF i > Len(devices) THEN VK_NULL_HANDLE
  ELSE IF is_device_suitable(devices[i]) THEN i
       ELSE FirstSuitableFrom(devices, i + 1)

pick_physical_device(c, devices) ==
  IF c.err # "" THEN c
  ELSE LET c1 == Call(c, "vkEnumeratePhysicalDevices")
       IN IF ~(Len(devices) > 0)
          THEN Throw(c1, "failed to find GPUs with Vulkan support")
          ELSE LET c2 == Call(c1, "vkEnumeratePhysicalDevices")
                   picked == FirstSuitableFrom(devices, 1)
               IN IF ~(picked # VK_NULL_HANDLE)
                  THEN Throw([c2 EXCEPT !.d.physical_device_ = picked],
                             "failed to find a suitable GPU")
                  ELSE [c2 EXCEPT
                          !.d.physical_device_ = picked,
                          !.d.compute_family =
                             find_queue_families(devices[picked])]

\* The extension names create_logical_device() compares against, and one
\* name it does not know.
VK_KHR_PORTABILITY_SUBSET == "VK_KHR_portability_subset"
VK_KHR_SURFACE_EXTENSION_NAME == "VK_KHR_surface"
VK_KHR_SWAPCHAIN_EXTENSION_NAME == "VK_KHR_swapchain"
VK_EXT_SHADER_ATOMIC_FLOAT_EXTENSION_NAME == "VK_EXT_shader_atomic_float"
VK_KHR_SHADER_ATOMIC_INT64_EXTENSION_NAME == "VK_KHR_shader_atomic_int64"
VK_KHR_SYNCHRONIZATION_2_EXTENSION_NAME == "VK_KHR_synchronization2"
VK_NV_EXTERNAL_MEMORY_CAPABILITIES_EXTENSION_NAME ==
  "VK_NV_external_memory_capabilities"
VK_KHR_VARIABLE_POINTERS_EXTENSION_NAME == "VK_KHR_variable_pointers"
VK_KHR_MAINTENANCE1_EXTENSION_NAME == "VK_KHR_maintenance1"

ExtensionNames ==
  { VK_KHR_PORTABILITY_SUBSET, VK_KHR_SURFACE_EXTENSION_NAME,
    VK_KHR_SWAPCHAIN_EXTENSION_NAME,
    VK_EXT_SHADER_ATOMIC_FLOAT_EXTENSION_NAME,
    VK_KHR_SHADER_ATOMIC_INT64_EXTENSION_NAME,
    VK_KHR_SYNCHRONIZATION_2_EXTENSION_NAME,
    VK_NV_EXTERNAL_MEMORY_CAPABILITIES_EXTENSION_NAME,
    VK_KHR_VARIABLE_POINTERS_EXTENSION_NAME,
    VK_KHR_MAINTENANCE1_EXTENSION_NAME }

\* What vkEnumerateDeviceExtensionProperties may report: each extension once.
ExtensionLists ==
  { l \in SeqsUpTo(ExtensionNames, MaxExtensions) :
      \A i, j \in 1..Len(l) : i # j => l[i] # l[j] }

\* The reports the device contexts of the other specifications are built
\* from.
PlainExtensionLists == { <<>>, << VK_KHR_VARIABLE_POINTERS_EXTENSION_NAME >> }

\* A faulty loop body: every reported extension is enabled.
EnablesExtension_all(name) == name = name

\* The branches of the loop body of create_logical_device() that push the
\* name onto enabled_extensions.
EnablesExtension(name) ==
  \/ name = VK_KHR_PORTABILITY_SUBSET
  \/ name \in { VK_KHR_SURFACE_EXTENSION_NAME,
                 VK_KHR_SWAPCHAIN_EXTENSION_NAME,
                 VK_EXT_SHADER_ATOMIC_FLOAT_EXTENSION_NAME,
                 VK_KHR_SHADER_ATOMIC_INT64_EXTENSION_NAME,
                 VK_KHR_SYNCHRONIZATION_2_EXTENSION_NAME,
                 VK_NV_EXTERNAL_MEMORY_CAPABILITIES_EXTENSION_NAME }
  \/ name = VK_KHR_VARIABLE_POINTERS_EXTENSION_NAME

\* enabled_extensions after the loop: the pushed names in reported order.
enabled_extensions(extension_properties) ==
  SelectSeq(extension_properties, EnablesExtension)

\* create_logical_device(); extension_properties is what the second
\* vkEnumerateDeviceExtensionProperties call fills in.  When the list has
\* no VK_KHR_variable_pointers the function logs a warning and goes on.
create_logical_device(c, extension_properties, fail) ==
  IF c.err # "" THEN c
  ELSE LET c1 == Call(c, "vkEnumerateDeviceExtensionProperties")
           c2 == [c1 EXCEPT !.calls = Append(@,
                    [ call |-> "vkEnumerateDeviceExtensionProperties",
                      arg |-> VK_NULL_HANDLE,
                      pProperties |-> extension_properties ])]
           c3 == [c2 EXCEPT !.calls = Append(@,
                    [ call |-> "vkCreateDevice",
                      arg |-> VK_NULL_HANDLE,
                      queueCreateInfoCount |-> 1,
                      ppEnabledExtensionNames |->
                        enabled_extensions(extension_properties) ])]
       IN IF fail = "vkCreateDevice"
          THEN Throw(c3, "failed to create logical device")
          ELSE [Call(c3, "vkGetDeviceQueue") EXCEPT
                   !.d.device_ = 1, !.d.compute_queue_ = 1]

create_command_pool(c, fail) ==
  IF c.err # "" THEN c
  ELSE LET c1 == Call(c, "vkCreateCommandPool")
       IN IF fail = "vkCreateCommandPool"
          THEN Throw(c1, "failed to create command pool")
          ELSE [c1 EXCEPT !.d.command_pool_ = 1]

\* ManagedVulkanDevice::ManagedVulkanDevice(params).
ConstructDevice(extension_properties, fail) ==
  /\ dev.status = "none"
  /\ LET c == create_command_pool(
                create_logical_device(
                  pick_physical_device(
                    setup_debug_messenger(
                      create_instance(Running(dev), fail), fail),
                    physical_devices),
                  extension_properties, fail),
                fail)
     IN /\ dev' = [c.d EXCEPT
                     !.status = IF c.err = "" THEN "constructed" ELSE "failed"]
        /\ calls' = c.calls
        /\ outcome' = [ op |-> "ManagedVulkanDevice", obj |-> 0,
                        result |-> IF c.err = "" THEN "ok" ELSE "error",
                        error |-> c.err, returned |-> FALSE,
                        value |-> VK_NULL_HANDLE ]
  /\ UNCHANGED <<physical_devices, cmdVars>>

\* A faulty destructor: the instance goes first.
DestroyDevice_instance_first ==
  /\ dev.status = "constructed"
  /\ dev' = [dev EXCEPT !.status = "destroyed"]
  /\ calls' = << VkCall("vkDestroyInstance", dev.instance_),
                 VkCall("vkDestroyDebugUtilsMessengerEXT", dev.debug_messenger_),
                 VkCall("vkDestroyCommandPool", dev.command_pool_),
                 VkCall("vkDestroyDevice", dev.device_) >>
  /\ outcome' = [ op |-> "~ManagedVulkanDevice", obj |-> 0, result |-> "ok",
                  error |-> "", returned |-> FALSE, value |-> VK_NULL_HANDLE ]
  /\ UNCHANGED <<physical_devices, cmdVars>>

\* ManagedVulkanDevice::~ManagedVulkanDevice(): runs on a constructed
\* object only (a constructor that throws leaves no object to destroy).
DestroyDevice ==
  /\ dev.status = "constructed"
  /\ dev' = [dev EXCEPT !.status = "destroyed"]
  /\ calls' = << VkCall("vkDestroyDebugUtilsMessengerEXT", dev.debug_messenger_),
                 VkCall("vkDestroyCommandPool", dev.command_pool_),
                 VkCall("vkDestroyDevice", dev.device_),
                 VkCall("vkDestroyInstance", dev.instance_) >>
  /\ outcome' = [ op |-> "~ManagedVulkanDevice", obj |-> 0, result |-> "ok",
                  error |-> "", returned |-> FALSE, value |-> VK_NULL_HANDLE ]
  /\ UNCHANGED <<physical_devices, cmdVars>>

NoOutcome ==
  [ op |-> "", obj |-> 0, result |-> "ok", error |-> "", returned |-> FALSE,
    value |-> VK_NULL_HANDLE ]

\* The queue before any submission, with a in buffer "A": how many of the
\* submissions have started, the commands executed so far as <<submission,
\* index>>, the value each of them read as <<submission, index, value>>,
\* the buffers' contents, and whether the device is lost.
IdleGpu(a) ==
  [ started |-> 0, done |-> {}, seen |-> {},
    mem |-> [ buf \in {"A", "B", "H"} |-> IF buf = "A" THEN a ELSE 0 ],
    lost |-> FALSE ]

\* The members of a VulkanPipeline before its constructor has run, with the
\* driver objects it has created and not destroyed (live), the ones it has
\* destroyed, in order, and the contents of its descriptor set.
NoPipeline ==
  [ status |-> "none",
    buffer_bindings |-> <<>>,
    descriptor_set_layout_ |-> VK_NULL_HANDLE,
    pipeline_layout_ |-> VK_NULL_HANDLE,
    pipeline_ |-> VK_NULL_HANDLE,
    descriptor_pool_ |-> VK_NULL_HANDLE,
    descriptor_set_ |-> VK_NULL_HANDLE,
    live |-> {},
    destroyed |-> <<>>,
    bound |-> {} ]

\* No builder, command buffer, submission or pipeline yet.
InitCommands ==
  /\ builders = <<>>
  /\ cmdbufs = <<>>
  /\ handles = {}
  /\ submitted = <<>>
  /\ gpu = IdleGpu(1)
  /\ pipe = NoPipeline
  /\ proc = "running"

InitDevice ==
  /\ physical_devices \in DeviceLists
  /\ dev = NoDevice
  /\ calls = <<>>
  /\ outcome = NoOutcome
  /\ InitCommands

NextDevice ==
  \/ \E extension_properties \in PlainExtensionLists,
        fail \in DeviceFailures :
       ConstructDevice(extension_properties, fail)
  \/ DestroyDevice

SpecDevice == InitDevice /\ [][NextDevice]_vars

\* ------------------------------------------- claims on device selection

\* Whether some queue family of the device reports the compute bit.
HasComputeFamily(families) ==
  \E i \in 1..Len(families) : VK_QUEUE_COMPUTE_BIT \in families[i]

NoDeviceQualifies ==
  \A i \in 1..Len(physical_devices) : ~HasComputeFamily(physical_devices[i])

\* C1: the selected physical device always has a queue family with the
\* compute bit; and when no enumerated device has one, construction ends
\* with an error before create_logical_device and create_command_pool
\* issue any call: no logical device, queue or command pool exists.
C1_SelectsComputeDevice ==
  /\ dev.physical_device_ # VK_NULL_HANDLE =>
       HasComputeFamily(physical_devices[dev.physical_device_])
  /\ (dev.status # "none" /\ NoDeviceQualifies) =>
       /\ dev.status = "failed"
       /\ outcome.result = "error"
       /\ dev.device_ = VK_NULL_HANDLE
       /\ dev.compute_queue_ = VK_NULL_HANDLE
       /\ dev.command_pool_ = VK_NULL_HANDLE
       /\ \A k \in 1..Len(calls) :
            calls[k].call \notin { "vkEnumerateDeviceExtensionProperties",
                              "vkCreateDevice", "vkGetDeviceQueue",
                              "vkCreateCommandPool" }

\* C1's case: devices were enumerated, none has a compute family, and the
\* constructor stopped in pick_physical_device.
C1_Witness ==
  /\ Len(physical_devices) > 0
  /\ NoDeviceQualifies
  /\ dev.status = "failed"
  /\ outcome.error = "failed to find a suitable GPU"

Min(S) == CHOOSE x \in S : \A y \in S : x <= y

\* The 0-based indices of the families with compute and without graphics.
ComputeOnlyFamilies(families) ==
  { i \in 0..(Len(families) - 1) :
      /\ VK_QUEUE_COMPUTE_BIT \in families[i + 1]
      /\ VK_QUEUE_GRAPHICS_BIT \notin families[i + 1] }

ComputeFamilies(families) ==
  { i \in 0..(Len(families) - 1) : VK_QUEUE_COMPUTE_BIT \in families[i + 1] }

\* The selection policy as the specification words it.
PreferredFamily(families) ==
  IF ComputeOnlyFamilies(families) # {} THEN Min(ComputeOnlyFamilies(families))
  ELSE IF ComputeFamilies(families) # {} THEN Min(ComputeFamilies(families))
  ELSE NoFamily

\* C2: find_queue_families returns the lowest compute-and-not-graphics
\* family if there is one, else the lowest compute family, else no index;
\* a constructed device holds the first enumerated device with an index,
\* and that device's index.
C2_SelectionPolicy ==
  /\ \A i \in 1..Len(physical_devices) :
       find_queue_families(physical_devices[i]) =
         PreferredFamily(physical_devices[i])
  /\ dev.status = "constructed" =>
       /\ dev.physical_device_ =
            Min({ i \in 1..Len(physical_devices) :
                    PreferredFamily(physical_devices[i]) # NoFamily })
       /\ dev.compute_family =
            PreferredFamily(physical_devices[dev.physical_device_])

\* C2's case: the first device is skipped, and in the second the preferred
\* family is not the first compute family.
C2_Witness ==
  /\ dev.status = "constructed"
  /\ dev.physical_device_ = 2
  /\ dev.compute_family = 1
  /\ VK_QUEUE_COMPUTE_BIT \in physical_devices[2][1]

\* ------------------------------------------------------- command recording

\* Bounds of the recording specification (SpecRecord): command buffers
\* allocated from the pool, and append() calls on one builder.
RecMaxCmdBufs == 1
RecMaxAppends == 2

\* Bounds of the stream specification (Spec): command buffers allocated,
\* append() and build() calls on one builder, launch() calls that reach
\* the queue.
MaxCmdBufs == 1
MaxAppends == 1
MaxBuilds == 2
MaxLaunches == 1

\* The VulkanPipeline objects handed to append(): pipeline(),
\* pipeline_layout() and descriptor_set() of each.
Pipeline1 ==
  [ pipeline_ |-> 11, pipeline_layout_ |-> 21, descriptor_set_ |-> 31 ]

Pipeline2 ==
  [ pipeline_ |-> 12, pipeline_layout_ |-> 22, descriptor_set_ |-> 32 ]

\* The arguments handed to append().
AppendRequests ==
  { [ pipeline |-> Pipeline1, group_count_x |-> 2 ],
    [ pipeline |-> Pipeline2, group_count_x |-> 3 ] }

\* The arguments handed to record_copy_buffer_command.
CopyRequests ==
  { [ src |-> "A", dst |-> "B", size |-> 4, direction |-> "H2D" ],
    [ src |-> "B", dst |-> "H", size |-> 4, direction |-> "D2H" ] }

\* The recorded commands.
CmdBindPipeline(bindPoint, pipeline) ==
  [ cmd |-> "vkCmdBindPipeline", bindPoint |-> bindPoint,
    pipeline |-> pipeline ]

CmdBindDescriptorSets(bindPoint, layout, firstSet, sets) ==
  [ cmd |-> "vkCmdBindDescriptorSets", bindPoint |-> bindPoint,
    layout |-> layout, firstSet |-> firstSet, sets |-> sets ]

CmdDispatch(x, y, z) ==
  [ cmd |-> "vkCmdDispatch", x |-> x, y |-> y, z |-> z ]

CmdPipelineBarrier(srcStage, dstStage, srcAccess, dstAccess) ==
  [ cmd |-> "vkCmdPipelineBarrier", srcStageMask |-> srcStage,
    dstStageMask |-> dstStage, srcAccessMask |-> srcAccess,
    dstAccessMask |-> dstAccess ]

CmdCopyBuffer(src, dst, regions) ==
  [ cmd |-> "vkCmdCopyBuffer", srcBuffer |-> src, dstBuffer |-> dst,
    regions |-> regions ]

\* What the host is running: the objects as they are, the calls issued by
\* the running operation, the exception in flight, whether the process has
\* died, and the value the operation returns.
Machine ==
  [ bs |-> builders, cbs |-> cmdbufs, calls |-> <<>>, err |-> "",
    dead |-> FALSE, returned |-> FALSE, ret |-> VK_NULL_HANDLE ]

CallOn(m, name, arg) == [m EXCEPT !.calls = Append(@, VkCall(name, arg))]

\* ---- the driver

\* vkAllocateCommandBuffers: one more command buffer, in the initial state.
vkAllocateCommandBuffers(cbs) ==
  Append(cbs, [ state |-> "initial", flags |-> {}, cmds |-> <<>>,
                endCalls |-> 0, ends |-> 0 ])

vkBeginCommandBuffer(cbs, h, flags) ==
  [cbs EXCEPT ![h].state = "recording", ![h].flags = flags]

\* Whether vkEndCommandBuffer(h) is a valid use of the API.
ValidEnd(cbs, h) ==
  /\ h # VK_NULL_HANDLE
  /\ cbs[h].state = "recording"

\* vkEndCommandBuffer(h) with the result the driver reports.  A failure
\* leaves the command buffer invalid.  On the null handle there is no
\* command buffer to change.  endCalls counts the calls made on h, ends
\* those that ended its recording.
vkEndCommandBuffer(cbs, h, res) ==
  IF h = VK_NULL_HANDLE THEN cbs
  ELSE IF res = "VK_SUCCESS"
       THEN [cbs EXCEPT ![h].state = "executable", ![h].ends = @ + 1,
                        ![h].endCalls = @ + 1]
       ELSE [cbs EXCEPT ![h].state = "invalid", ![h].endCalls = @ + 1]

\* Whether a vkCmd* call on h is a valid use of the API.
ValidRecord(cbs, h) ==
  /\ h # VK_NULL_HANDLE
  /\ cbs[h].state = "recording"

\* A vkCmd* call on h.  Outside the recording state the call is undefined:
\* ub says whether the driver records the command anyway or ignores it.
vkCmd(cbs, h, c, ub) ==
  IF h = VK_NULL_HANDLE THEN cbs
  ELSE IF cbs[h].state = "recording" \/ ub = "recorded"
       THEN [cbs EXCEPT ![h].cmds = Append(@, c)]
       ELSE cbs

\* The vkCmd* calls of one member function, in order, on handle h.
RECURSIVE RecordAll(_, _, _, _)
RecordAll(m, h, cs, ub) ==
  IF cs = <<>> THEN m
  ELSE RecordAll([CallOn(m, cs[1].cmd, h) EXCEPT
                     !.cbs = vkCmd(@, h, cs[1], ub)],
                 h, Tail(cs), ub)

\* ---- VulkanCommandBuilder

\* VulkanCommandBuilder::VulkanCommandBuilder(device), for a builder of the
\* given kind; fail names the driver call that reports failure.
VulkanCommandBuilder(m, kind, fail) ==
  LET m1 == CallOn(m, "vkAllocateCommandBuffers", dev.command_pool_)
      h == Len(m.cbs) + 1
      m2 == CallOn([m1 EXCEPT !.cbs = vkAllocateCommandBuffers(@)],
                   "vkBeginCommandBuffer", h)
  IN IF fail = "vkAllocateCommandBuffers"
     THEN Throw(m1, "failed to allocate command buffer")
     ELSE IF fail = "vkBeginCommandBuffer"
     THEN Throw(m2, "failed to begin recording command buffer")
     ELSE [m2 EXCEPT
             !.cbs = vkBeginCommandBuffer(@, h, {"SIMULTANEOUS_USE"}),
             !.bs = Append(@, [ kind |-> kind, life |-> "alive",
                                command_buffer_ |-> h, allocated |-> h,
                                appended |-> <<>>, builds |-> 0,
                                finalized_at |-> 0 ])]

\* A faulty build(): the recording is not ended.
build_no_end(m, b, res) ==
  [m EXCEPT !.bs[b].command_buffer_ = VK_NULL_HANDLE,
            !.bs[b].finalized_at = IF @ = 0 THEN m.bs[b].builds ELSE @,
            !.returned = TRUE, !.ret = m.bs[b].command_buffer_]

\* A faulty build(): command_buffer_ is not cleared.
build_keep(m, b, res) ==
  LET h == m.bs[b].command_buffer_
      m1 == [CallOn(m, "vkEndCommandBuffer", h) EXCEPT
               !.cbs = vkEndCommandBuffer(@, h, res)]
  IN IF res = "crash" THEN [m1 EXCEPT !.dead = TRUE]
     ELSE IF res # "VK_SUCCESS"
     THEN Throw(m1, "failed to record command buffer")
     ELSE [m1 EXCEPT
             !.bs[b].finalized_at = IF @ = 0 THEN m.bs[b].builds ELSE @,
             !.returned = TRUE, !.ret = h]

\* A faulty build(): the member is cleared before it is read.
build_null(m, b, res) ==
  LET h == m.bs[b].command_buffer_
      m1 == [CallOn(m, "vkEndCommandBuffer", h) EXCEPT
               !.cbs = vkEndCommandBuffer(@, h, res)]
  IN IF res = "crash" THEN [m1 EXCEPT !.dead = TRUE]
     ELSE IF res # "VK_SUCCESS"
     THEN Throw(m1, "failed to record command buffer")
     ELSE [m1 EXCEPT
             !.bs[b].command_buffer_ = VK_NULL_HANDLE,
             !.bs[b].finalized_at = IF @ = 0 THEN m.bs[b].builds ELSE @,
             !.returned = TRUE, !.ret = VK_NULL_HANDLE]

\* VulkanCommandBuilder::build(); res is what vkEndCommandBuffer reports
\* ("crash": the undefined call brings the process down).  builds counts
\* the caller's build() calls on the builder, and finalized_at is the count
\* at which build() first returned normally (0 before that).
build(m, b, res) ==
  LET h == m.bs[b].command_buffer_
      m1 == [CallOn(m, "vkEndCommandBuffer", h) EXCEPT
               !.cbs = vkEndCommandBuffer(@, h, res)]
  IN IF res = "crash" THEN [m1 EXCEPT !.dead = TRUE]
     ELSE IF res # "VK_SUCCESS"
     THEN Throw(m1, "failed to record command buffer")
     ELSE [m1 EXCEPT
             !.bs[b].command_buffer_ = VK_NULL_HANDLE,
             !.bs[b].finalized_at = IF @ = 0 THEN m.bs[b].builds ELSE @,
             !.returned = TRUE, !.ret = h]

\* VulkanCommandBuilder::~VulkanCommandBuilder().  The destructor is
\* noexcept: an exception leaving build() ends in std::terminate.
Destructor(m, b, res) ==
  IF m.bs[b].command_buffer_ # VK_NULL_HANDLE
  THEN LET m1 == build([m EXCEPT !.err = ""], b, res)
       IN IF m1.err # "" \/ m1.dead
          THEN [m1 EXCEPT !.dead = TRUE,
                          !.returned = FALSE, !.ret = VK_NULL_HANDLE]
          ELSE [m1 EXCEPT !.bs[b].life = "destroyed", !.err = m.err,
                          !.returned = m.returned, !.ret = m.ret]
  ELSE [m EXCEPT !.bs[b].life = "destroyed"]

\* A faulty append(): the barrier after the dispatch is left out.
AppendCommands_no_barrier(pipeline, group_count_x) ==
  << CmdBindPipeline("COMPUTE", pipeline.pipeline_),
     CmdBindDescriptorSets("COMPUTE", pipeline.pipeline_layout_, 0,
                           << pipeline.descriptor_set_ >>),
     CmdDispatch(group_count_x, 1, 1) >>

\* The commands VulkanComputeCommandBuilder::append records, in order.
AppendCommands(pipeline, group_count_x) ==
  << CmdBindPipeline("COMPUTE", pipeline.pipeline_),
     CmdBindDescriptorSets("COMPUTE", pipeline.pipeline_layout_, 0,
                           << pipeline.descriptor_set_ >>),
     CmdDispatch(group_count_x, 1, 1),
     CmdPipelineBarrier({"COMPUTE_SHADER"}, {"TRANSFER", "COMPUTE_SHADER"},
                        {"SHADER_WRITE", "SHADER_READ"},
                        {"TRANSFER_READ", "TRANSFER_WRITE", "SHADER_READ",
                         "SHADER_WRITE"}) >>

\* VulkanComputeCommandBuilder::append(pipeline, group_count_x).
append(m, b, pipeline, group_count_x, ub) ==
  LET h == m.bs[b].command_buffer_
      m1 == [m EXCEPT !.bs[b].appended =
                         Append(@, [ pipeline |-> pipeline,
                                     group_count_x |-> group_count_x ])]
  IN IF ub = "crash"
     THEN [CallOn(m1, "vkCmdBindPipeline", h) EXCEPT !.dead = TRUE]
     ELSE RecordAll(m1, h, AppendCommands(pipeline, group_count_x), ub)

\* A faulty copy(): no barrier after a host-to-device copy.
CopyCommands_no_barrier(src_buffer, dst_buffer, size, direction) ==
  << CmdCopyBuffer(src_buffer, dst_buffer,
                   << [ srcOffset |-> 0, dstOffset |-> 0, size |-> size ] >>) >>

\* The commands CopyBufferCommandBuilder::copy records, in order.
CopyCommands(src_buffer, dst_buffer, size, direction) ==
  << CmdCopyBuffer(src_buffer, dst_buffer,
                   << [ srcOffset |-> 0, dstOffset |-> 0, size |-> size ] >>) >>
  \o IF direction = "H2D"
     THEN << CmdPipelineBarrier({"TRANSFER"}, {"COMPUTE_SHADER", "TRANSFER"},
                                {"TRANSFER_WRITE"},
                                {"SHADER_READ", "TRANSFER_READ"}) >>
     ELSE << >>

\* CopyBufferCommandBuilder::copy(src_buffer, dst_buffer, size, direction).
copy(m, b, req) ==
  RecordAll([m EXCEPT !.bs[b].appended = Append(@, req)],
            m.bs[b].command_buffer_,
            CopyCommands(req.src, req.dst, req.size, req.direction), "none")

\* record_copy_buffer_command(device, src, dst, size, direction): the local
\* builder cb is destroyed on the way out, also when build() throws; res2
\* is what the destructor's vkEndCommandBuffer then reports.
record_copy_buffer_command(m, req, fail, res2) ==
  LET m1 == VulkanCommandBuilder(m, "copy", fail)
      b == Len(m1.bs)
      m2 == copy(m1, b, req)
      m3 == build([m2 EXCEPT !.bs[b].builds = @ + 1], b,
                  IF fail = "vkEndCommandBuffer"
                  THEN "VK_ERROR_OUT_OF_HOST_MEMORY" ELSE "VK_SUCCESS")
  IN IF m1.err # "" THEN m1 ELSE Destructor(m3, b, res2)

\* ---- the operations, as the caller sees them

\* The state after an operation that ran as m.
Commit(m, op, obj) ==
  /\ builders' = m.bs
  /\ cmdbufs' = m.cbs
  /\ calls' = m.calls
  /\ proc' = IF m.dead THEN "terminated" ELSE proc
  /\ outcome' = [ op |-> op, obj |-> obj,
                  result |-> IF m.dead THEN "terminated"
                             ELSE IF m.err # "" THEN "error" ELSE "ok",
                  error |-> m.err, returned |-> m.returned,
                  value |-> m.ret ]
  /\ handles' = IF m.returned /\ ~m.dead /\ m.err = ""
                THEN handles \cup {m.ret} ELSE handles

BuilderFailures == { "none", "vkAllocateCommandBuffers", "vkBeginCommandBuffer" }

EndResults == { "VK_SUCCESS", "VK_ERROR_OUT_OF_HOST_MEMORY" }

\* VulkanComputeCommandBuilder builder(device);
NewComputeBuilder(fail) ==
  /\ proc = "running"
  /\ Commit(VulkanCommandBuilder(Machine, "compute", fail),
            "VulkanCommandBuilder", Len(builders) + 1)
  /\ UNCHANGED <<devVars, submitted, gpu, pipe>>

\* builder.append(pipeline, group_count_x);
Append_(b, pipeline, group_count_x, ub) ==
  /\ proc = "running"
  /\ builders[b].life = "alive"
  /\ builders[b].kind = "compute"
  /\ (ub = "none") <=> ValidRecord(cmdbufs, builders[b].command_buffer_)
  /\ (ub = "recorded") => builders[b].command_buffer_ # VK_NULL_HANDLE
  /\ Commit(append(Machine, b, pipeline, group_count_x, ub), "append", b)
  /\ UNCHANGED <<devVars, submitted, gpu, pipe>>

\* builder.build();
Build(b, res) ==
  /\ proc = "running"
  /\ builders[b].life = "alive"
  /\ (res = "crash") => ~ValidEnd(cmdbufs, builders[b].command_buffer_)
  /\ Commit(build([Machine EXCEPT !.bs[b].builds = @ + 1], b, res),
            "build", b)
  /\ UNCHANGED <<devVars, submitted, gpu, pipe>>

\* The builder goes out of scope.
DestroyBuilder(b, res) ==
  /\ proc = "running"
  /\ builders[b].life = "alive"
  /\ (builders[b].command_buffer_ = VK_NULL_HANDLE) => res = "VK_SUCCESS"
  /\ Commit(Destructor(Machine, b, res), "~VulkanCommandBuilder", b)
  /\ UNCHANGED <<devVars, submitted, gpu, pipe>>

\* record_copy_buffer_command(device, src, dst, size, direction);
RecordCopy(req, fail, res2) ==
  /\ proc = "running"
  /\ (fail # "vkEndCommandBuffer") => res2 = "VK_SUCCESS"
  /\ Commit(record_copy_buffer_command(Machine, req, fail, res2),
            "record_copy_buffer_command", Len(builders) + 1)
  /\ UNCHANGED <<devVars, submitted, gpu, pipe>>

\* Whether a submission of h is on the queue that has not completed: it has
\* not started, or one of its memory-accessing commands has not executed.
PendingOnQueue(cbs, h) ==
  \E k \in 1..Len(submitted) :
    /\ submitted[k] = h
    /\ \/ k > gpu.started
       \/ \E i \in 1..Len(cbs[h].cmds) :
            /\ cbs[h].cmds[i].cmd \in {"vkCmdCopyBuffer", "vkCmdDispatch"}
            /\ <<k, i>> \notin gpu.done

\* Whether vkQueueSubmit of h is a valid use of the API: h is executable,
\* and recorded for simultaneous use when a submission of it is pending.
ValidSubmit(cbs, h) ==
  /\ h # VK_NULL_HANDLE
  /\ cbs[h].state = "executable"
  /\ PendingOnQueue(cbs, h) => "SIMULTANEOUS_USE" \in cbs[h].flags

\* A faulty launch(): the submission waits on and signals a semaphore and
\* carries a fence.
SubmitCall_fenced(queue, command) ==
  [ call |-> "vkQueueSubmit", arg |-> queue, submitCount |-> 1,
    pSubmits |-> << [ waitSemaphores |-> << 1 >>,
                      commandBuffers |-> << command >>,
                      signalSemaphores |-> << 1 >> ] >>,
    fence |-> 1 ]

\* The one vkQueueSubmit call of launch().
SubmitCall(queue, command) ==
  [ call |-> "vkQueueSubmit", arg |-> queue, submitCount |-> 1,
    pSubmits |-> << [ waitSemaphores |-> <<>>,
                      commandBuffers |-> << command >>,
                      signalSemaphores |-> <<>> ] >>,
    fence |-> VK_NULL_HANDLE ]

\* A faulty launch(): the command buffer goes ahead of the submissions
\* already made.
Launch_front(command, res) ==
  /\ proc = "running"
  /\ command \in handles
  /\ (res = "crash") => ~ValidSubmit(cmdbufs, command)
  /\ calls' = << SubmitCall(dev.compute_queue_, command) >>
  /\ submitted' = IF res = "VK_SUCCESS" THEN << command >> \o submitted
                  ELSE submitted
  /\ proc' = IF res = "crash" THEN "terminated" ELSE proc
  /\ outcome' = [ op |-> "launch", obj |-> command,
                  result |-> IF res = "crash" THEN "terminated"
                             ELSE IF res = "VK_SUCCESS" THEN "ok" ELSE "error",
                  error |-> IF res \in {"VK_SUCCESS", "crash"} THEN ""
                            ELSE "failed to submit command buffer",
                  returned |-> FALSE, value |-> VK_NULL_HANDLE ]
  /\ UNCHANGED <<devVars, builders, cmdbufs, handles, gpu, pipe>>

\* VulkanStream::launch(command); res is what vkQueueSubmit reports.
Launch(command, res) ==
  /\ proc = "running"
  /\ command \in handles
  /\ (res = "crash") => ~ValidSubmit(cmdbufs, command)
  /\ calls' = << SubmitCall(dev.compute_queue_, command) >>
  /\ submitted' = IF res = "VK_SUCCESS" THEN Append(submitted, command)
                  ELSE submitted
  /\ proc' = IF res = "crash" THEN "terminated" ELSE proc
  /\ outcome' = [ op |-> "launch", obj |-> command,
                  result |-> IF res = "crash" THEN "terminated"
                             ELSE IF res = "VK_SUCCESS" THEN "ok" ELSE "error",
                  error |-> IF res \in {"VK_SUCCESS", "crash"} THEN ""
                            ELSE "failed to submit command buffer",
                  returned |-> FALSE, value |-> VK_NULL_HANDLE ]
  /\ UNCHANGED <<devVars, builders, cmdbufs, handles, gpu, pipe>>

SubmitResults == { "VK_SUCCESS", "VK_ERROR_DEVICE_LOST", "crash" }

\* The device every builder and stream is constructed against.
TheDevices == << << {VK_QUEUE_COMPUTE_BIT, VK_QUEUE_TRANSFER_BIT} >> >>

ConstructedDevice ==
  [ create_command_pool(
      create_logical_device(
        pick_physical_device(
          setup_debug_messenger(create_instance(Running(NoDevice), "none"),
                                "none"),
          TheDevices),
        <<>>, "none"),
      "none").d EXCEPT !.status = "constructed" ]

\* ---- the construction of the device context on a device that reports
\* any list of extensions

InitExtensions ==
  /\ physical_devices = TheDevices
  /\ dev = NoDevice
  /\ calls = <<>>
  /\ outcome = NoOutcome
  /\ InitCommands

NextExtensions ==
  \/ \E extension_properties \in ExtensionLists, fail \in DeviceFailures :
       ConstructDevice(extension_properties, fail)
  \/ DestroyDevice

SpecExtensions == InitExtensions /\ [][NextExtensions]_vars

Init ==
  /\ physical_devices = TheDevices
  /\ dev = ConstructedDevice
  /\ calls = <<>>
  /\ outcome = NoOutcome
  /\ InitCommands

\* The operations that record command buffers, within the given bounds and
\* with the given arguments of append().
RecordingStep(maxCmdBufs, maxAppends, maxBuilds, requests, copies) ==
  \/ \E fail \in BuilderFailures :
       /\ Len(cmdbufs) < maxCmdBufs
       /\ NewComputeBuilder(fail)
  \/ \E b \in 1..Len(builders), req \in requests,
        ub \in {"none", "ignored", "recorded", "crash"} :
       /\ Len(builders[b].appended) < maxAppends
       /\ Append_(b, req.pipeline, req.group_count_x, ub)
  \/ \E b \in 1..Len(builders), res \in EndResults \cup {"crash"} :
       /\ builders[b].builds < maxBuilds
       /\ Build(b, res)
  \/ \E b \in 1..Len(builders), res \in EndResults : DestroyBuilder(b, res)
  \/ \E req \in copies,
        fail \in BuilderFailures \cup {"vkEndCommandBuffer"},
        res2 \in EndResults :
       /\ Len(cmdbufs) < maxCmdBufs
       /\ RecordCopy(req, fail, res2)

\* Recording by a caller that keeps the builder's contract: build() is
\* called at most once on a builder.
NextRecord ==
  RecordingStep(RecMaxCmdBufs, RecMaxAppends, 1, AppendRequests, CopyRequests)

SpecRecord == Init /\ [][NextRecord]_vars

\* The arguments handed to append() and to record_copy_buffer_command in
\* the stream specification.
StreamAppendRequests == { [ pipeline |-> Pipeline1, group_count_x |-> 2 ] }

StreamCopyRequests == { req \in CopyRequests : req.direction = "H2D" }

\* Recording, also by callers that call build() again, and submission.
Next ==
  \/ RecordingStep(MaxCmdBufs, MaxAppends, MaxBuilds, StreamAppendRequests,
                   StreamCopyRequests)
  \/ \E command \in handles, res \in SubmitResults :
       /\ Len(submitted) < MaxLaunches
       /\ Launch(command, res)

Spec == Init /\ [][Next]_vars

\* ------------------------------------------------- the queue and the GPU

\* The largest value buffer "A" starts with.
MaxData == 2

\* The buffer the pipelines' descriptor sets bind, and what the kernel
\* does to each element of it.
StorageBuffer == "B"

Doubles(v) == 2 * v

\* The commands of the submissions, as <<submission, index>>.
Positions ==
  UNION { { <<k, i>> : i \in 1..Len(cmdbufs[submitted[k]].cmds) } :
          k \in { j \in 1..Len(submitted) : submitted[j] # VK_NULL_HANDLE } }

CommandAt(p) == cmdbufs[submitted[p[1]]].cmds[p[2]]

\* Submission order.
Before(p, q) == p[1] < q[1] \/ (p[1] = q[1] /\ p[2] < q[2])

\* The commands that access memory, the stage they run at, and what they
\* read and write.
IsAccess(c) == c.cmd \in {"vkCmdCopyBuffer", "vkCmdDispatch"}

Stage(c) == IF c.cmd = "vkCmdDispatch" THEN "COMPUTE_SHADER" ELSE "TRANSFER"

ReadsOf(c) ==
  IF c.cmd = "vkCmdDispatch"
  THEN [ buf |-> StorageBuffer, access |-> "SHADER_READ" ]
  ELSE [ buf |-> c.srcBuffer, access |-> "TRANSFER_READ" ]

WritesOf(c) ==
  IF c.cmd = "vkCmdDispatch"
  THEN [ buf |-> StorageBuffer, access |-> "SHADER_WRITE" ]
  ELSE [ buf |-> c.dstBuffer, access |-> "TRANSFER_WRITE" ]

\* Whether the pipeline barrier z makes y wait for x and see what x wrote:
\* the stages are in its scopes, a write of x that y reads or overwrites is
\* in its source accesses, and a read by y of what x wrote is in its
\* destination accesses.
Orders(z, x, y) ==
  /\ Stage(x) \in z.srcStageMask
  /\ Stage(y) \in z.dstStageMask
  /\ WritesOf(x).buf \in {ReadsOf(y).buf, WritesOf(y).buf} =>
       WritesOf(x).access \in z.srcAccessMask
  /\ WritesOf(x).buf = ReadsOf(y).buf =>
       ReadsOf(y).access \in z.dstAccessMask

\* A barrier recorded between p and q orders them; nothing else does.
OrderedBefore(p, q) ==
  \E r \in Positions :
    /\ Before(p, r)
    /\ Before(r, q)
    /\ CommandAt(r).cmd = "vkCmdPipelineBarrier"
    /\ Orders(CommandAt(r), CommandAt(p), CommandAt(q))

\* The command at q can execute now.
Ready(q) ==
  /\ q[1] <= gpu.started
  /\ q \notin gpu.done
  /\ IsAccess(CommandAt(q))
  /\ \A p \in Positions :
       (IsAccess(CommandAt(p)) /\ p \notin gpu.done) => ~OrderedBefore(p, q)

\* The queue after the command at q has executed.
Execute(g, q) ==
  LET c == CommandAt(q)
      v == g.mem[ReadsOf(c).buf]
  IN [ g EXCEPT !.done = @ \cup {q},
                !.seen = @ \cup { <<q[1], q[2], v>> },
                !.mem[WritesOf(c).buf] =
                   IF c.cmd = "vkCmdDispatch" THEN Doubles(v) ELSE v ]

\* The k-th submission has completed execution.
Completed(k) ==
  /\ k <= gpu.started
  /\ \A p \in Positions :
       (p[1] = k /\ IsAccess(CommandAt(p))) => p \in gpu.done

QueueIdle == \A k \in 1..Len(submitted) : Completed(k)

\* The queue starts its submissions in the order they were made.
GpuStart ==
  /\ ~gpu.lost
  /\ gpu.started < Len(submitted)
  /\ gpu' = [gpu EXCEPT !.started = @ + 1]
  /\ UNCHANGED <<devVars, calls, outcome, builders, cmdbufs, handles,
                 submitted, pipe, proc>>

GpuExec(q) ==
  /\ ~gpu.lost
  /\ Ready(q)
  /\ gpu' = Execute(gpu, q)
  /\ UNCHANGED <<devVars, calls, outcome, builders, cmdbufs, handles,
                 submitted, pipe, proc>>

WaitResults == { "VK_SUCCESS", "VK_ERROR_DEVICE_LOST" }

\* VulkanStream::synchronize(); res is what vkQueueWaitIdle reports: success
\* once the queue is idle, the loss of the device at any time.  The
\* function drops the result and returns.
Synchronize(res) ==
  /\ proc = "running"
  /\ (res = "VK_SUCCESS") => QueueIdle
  /\ (res = "VK_ERROR_DEVICE_LOST") => ~QueueIdle
  /\ calls' = << [ call |-> "vkQueueWaitIdle", arg |-> dev.compute_queue_,
                   result |-> res ] >>
  /\ outcome' = [ op |-> "synchronize", obj |-> 0, result |-> "ok",
                  error |-> "", returned |-> FALSE,
                  value |-> VK_NULL_HANDLE ]
  /\ gpu' = [gpu EXCEPT !.lost = @ \/ res # "VK_SUCCESS"]
  /\ UNCHANGED <<devVars, builders, cmdbufs, handles, submitted, pipe, proc>>

\* ---- the end-to-end scenario: copy "A" into "B", double "B" in place,
\* copy "B" back to the host-visible "H", synchronize

\* What the host does next, from what it did last; it stops at the first
\* operation that fails.
HostAt ==
  IF outcome.result # "ok" THEN "stopped"
  ELSE CASE outcome.op = "" -> "copy_in"
         [] outcome.op = "record_copy_buffer_command" /\ Len(builders) = 1
              -> "builder"
         [] outcome.op = "VulkanCommandBuilder" -> "append"
         [] outcome.op = "append" -> "build"
         [] outcome.op = "build" -> "copy_out"
         [] outcome.op = "record_copy_buffer_command" /\ Len(builders) = 3
              -> "launch"
         [] outcome.op = "launch" /\ Len(submitted) < 3 -> "launch"
         [] outcome.op = "launch" /\ Len(submitted) = 3 -> "synchronize"
         [] OTHER -> "done"

InitGpu ==
  /\ physical_devices = TheDevices
  /\ dev = ConstructedDevice
  /\ calls = <<>>
  /\ outcome = NoOutcome
  /\ builders = <<>>
  /\ cmdbufs = <<>>
  /\ handles = {}
  /\ submitted = <<>>
  /\ gpu \in { IdleGpu(a) : a \in 1..MaxData }
  /\ pipe = NoPipeline
  /\ proc = "running"

NextGpu ==
  \/ \E req \in CopyRequests,
        fail \in BuilderFailures \cup {"vkEndCommandBuffer"},
        res2 \in EndResults :
       /\ \/ HostAt = "copy_in" /\ req.direction = "H2D"
          \/ HostAt = "copy_out" /\ req.direction = "D2H"
       /\ RecordCopy(req, fail, res2)
  \/ \E fail \in BuilderFailures :
       /\ HostAt = "builder"
       /\ NewComputeBuilder(fail)
  \/ \E req \in StreamAppendRequests :
       /\ HostAt = "append"
       /\ Append_(Len(builders), req.pipeline, req.group_count_x, "none")
  \/ \E res \in EndResults :
       /\ HostAt = "build"
       /\ Build(Len(builders), res)
  \/ \E res \in SubmitResults :
       /\ HostAt = "launch"
       /\ Launch(builders[Len(submitted) + 1].allocated, res)
  \/ \E res \in WaitResults :
       /\ HostAt = "synchronize"
       /\ Synchronize(res)
  \/ GpuStart
  \/ \E q \in Positions : GpuExec(q)

SpecGpu == InitGpu /\ [][NextGpu]_vars

\* The scenario with a queue that keeps executing what it can and a host
\* thread that keeps running: a call that can return does return.
SpecGpuFair ==
  /\ SpecGpu
  /\ WF_vars(GpuStart)
  /\ WF_vars(\E q \in Positions : GpuExec(q))
  /\ WF_vars(\E res \in WaitResults :
               HostAt = "synchronize" /\ Synchronize(res))

\* ---- a stream used freely: the three recordings of the scenario, then
\* launches of any of the returned handles and synchronize() calls in any
\* order, while the queue makes progress

\* The launches that reach the queue in the free stream specification.
MaxSubmissions == 3

\* The recordings are made and the host is using the stream.
Streaming ==
  /\ outcome.result = "ok"
  /\ Len(builders) = 3
  /\ outcome.op \in {"record_copy_buffer_command", "launch", "synchronize"}

NextQueue ==
  \/ \E req \in CopyRequests,
        fail \in BuilderFailures \cup {"vkEndCommandBuffer"},
        res2 \in EndResults :
       /\ \/ HostAt = "copy_in" /\ req.direction = "H2D"
          \/ HostAt = "copy_out" /\ req.direction = "D2H"
       /\ RecordCopy(req, fail, res2)
  \/ \E fail \in BuilderFailures :
       /\ HostAt = "builder"
       /\ NewComputeBuilder(fail)
  \/ \E req \in StreamAppendRequests :
       /\ HostAt = "append"
       /\ Append_(Len(builders), req.pipeline, req.group_count_x, "none")
  \/ \E res \in EndResults :
       /\ HostAt = "build"
       /\ Build(Len(builders), res)
  \/ \E command \in handles, res \in SubmitResults :
       /\ Streaming
       /\ Len(submitted) < MaxSubmissions
       /\ gpu.lost => res = "VK_ERROR_DEVICE_LOST"
       /\ Launch(command, res)
  \/ \E res \in WaitResults :
       /\ Streaming
       /\ Synchronize(res)
  \/ GpuStart
  \/ \E q \in Positions : GpuExec(q)

SpecQueue == InitGpu /\ [][NextQueue]_vars

\* ---------------------------------------------------------- VulkanPipeline

\* The largest number of buffer bindings of a pipeline, which is also the
\* largest slot number.
MaxBindings == 2

\* params.buffer_bindings: one {binding, buffer} per kernel argument, the
\* slot numbers distinct.
BindingLists ==
  { bs \in SeqsUpTo([ binding : 0..MaxBindings, buffer : {"A", "B"} ],
                    MaxBindings) :
      /\ Len(bs) >= 1
      /\ \A i, j \in 1..Len(bs) : i # j => bs[i].binding # bs[j].binding }

\* The driver calls of the constructor that may report failure.
PipelineFailures ==
  { "none", "vkCreateDescriptorSetLayout", "vkCreateShaderModule",
    "vkCreatePipelineLayout", "vkCreateComputePipelines",
    "vkCreateDescriptorPool", "vkAllocateDescriptorSets" }

\* A running constructor issues the driver call r.
PCall(c, r) == [c EXCEPT !.calls = Append(@, r)]

create_descriptor_set_layout(c, fail) ==
  IF c.err # "" THEN c
  ELSE LET buffer_binds == c.d.buffer_bindings
           c1 == PCall(c, [ call |-> "vkCreateDescriptorSetLayout",
                            arg |-> dev.device_,
                            pBindings |->
                              [ i \in 1..Len(buffer_binds) |->
                                  [ binding |-> buffer_binds[i].binding,
                                    descriptorType |-> "STORAGE_BUFFER",
                                    descriptorCount |-> 1,
                                    stageFlags |-> {"COMPUTE"} ] ] ])
       IN IF fail = "vkCreateDescriptorSetLayout"
          THEN Throw(c1, "failed to create descriptor set layout")
          ELSE [c1 EXCEPT !.d.descriptor_set_layout_ = 41,
                          !.d.live = @ \cup {"descriptor_set_layout"}]

\* create_shader_module is inlined: the module is a local of
\* create_compute_pipeline, destroyed by its last statement only.
create_compute_pipeline(c, fail) ==
  IF c.err # "" THEN c
  ELSE LET c1 == PCall(c, VkCall("vkCreateShaderModule", dev.device_))
       IN IF fail = "vkCreateShaderModule"
          THEN Throw(c1, "failed to create shader module")
          ELSE
       LET c2 == PCall([c1 EXCEPT !.d.live = @ \cup {"shader_module"}],
                       [ call |-> "vkCreatePipelineLayout",
                         arg |-> dev.device_,
                         pSetLayouts |-> << c.d.descriptor_set_layout_ >> ])
       IN IF fail = "vkCreatePipelineLayout"
          THEN Throw(c2, "failed to create pipeline layout")
          ELSE
       LET c3 == PCall([c2 EXCEPT !.d.pipeline_layout_ = 21,
                                  !.d.live = @ \cup {"pipeline_layout"}],
                       [ call |-> "vkCreateComputePipelines",
                         arg |-> dev.device_, createInfoCount |-> 1,
                         layout |-> 21, stage |-> "COMPUTE",
                         pName |-> "main" ])
       IN IF fail = "vkCreateComputePipelines"
          THEN Throw(c3, "failed to create pipeline")
          ELSE [PCall(c3, VkCall("vkDestroyShaderModule", dev.device_))
                  EXCEPT !.d.pipeline_ = 11,
                         !.d.live = (@ \cup {"pipeline"}) \ {"shader_module"},
                         !.d.destroyed = Append(@, "shader_module")]

\* A faulty create_descriptor_pool(): room for one descriptor only.
create_descriptor_pool_one(c, fail) ==
  IF c.err # "" THEN c
  ELSE LET c1 == PCall(c, [ call |-> "vkCreateDescriptorPool",
                            arg |-> dev.device_, maxSets |-> 1,
                            pPoolSizes |->
                              << [ type |-> "STORAGE_BUFFER",
                                   descriptorCount |-> 1 ] >> ])
       IN IF fail = "vkCreateDescriptorPool"
          THEN Throw(c1, "failed to create descriptor pool")
          ELSE [c1 EXCEPT !.d.descriptor_pool_ = 51,
                          !.d.live = @ \cup {"descriptor_pool"}]

create_descriptor_pool(c, fail) ==
  IF c.err # "" THEN c
  ELSE LET c1 == PCall(c, [ call |-> "vkCreateDescriptorPool",
                            arg |-> dev.device_, maxSets |-> 1,
                            pPoolSizes |->
                              << [ type |-> "STORAGE_BUFFER",
                                   descriptorCount |->
                                     Len(c.d.buffer_bindings) ] >> ])
       IN IF fail = "vkCreateDescriptorPool"
          THEN Throw(c1, "failed to create descriptor pool")
          ELSE [c1 EXCEPT !.d.descriptor_pool_ = 51,
                          !.d.live = @ \cup {"descriptor_pool"}]

create_descriptor_sets(c, fail) ==
  IF c.err # "" THEN c
  ELSE LET buffer_binds == c.d.buffer_bindings
           c1 == PCall(c, [ call |-> "vkAllocateDescriptorSets",
                            arg |-> dev.device_,
                            descriptorPool |-> c.d.descriptor_pool_,
                            descriptorSetCount |-> 1,
                            pSetLayouts |-> << c.d.descriptor_set_layout_ >> ])
       IN IF fail = "vkAllocateDescriptorSets"
          THEN Throw(c1, "failed to allocate descriptor set")
          ELSE
       LET descriptor_writes ==
             [ i \in 1..Len(buffer_binds) |->
                 [ dstSet |-> 31,
                   dstBinding |-> buffer_binds[i].binding,
                   dstArrayElement |-> 0,
                   descriptorCount |-> 1,
                   descriptorType |-> "STORAGE_BUFFER",
                   pBufferInfo |-> [ buffer |-> buffer_binds[i].buffer,
                                     offset |-> 0,
                                     range |-> "VK_WHOLE_SIZE" ] ] ]
       IN [PCall(c1, [ call |-> "vkUpdateDescriptorSets",
                       arg |-> dev.device_,
                       pDescriptorWrites |-> descriptor_writes,
                       descriptorCopyCount |-> 0 ])
             EXCEPT !.d.descriptor_set_ = 31,
                    !.d.live = @ \cup {"descriptor_set"},
                    !.d.bound = { [ binding |-> descriptor_writes[i].dstBinding,
                                    buffer |->
                                      descriptor_writes[i].pBufferInfo.buffer ] :
                                  i \in 1..Len(descriptor_writes) }]

\* VulkanPipeline::VulkanPipeline(params).  A constructor that throws
\* leaves no object, so no destructor runs for it.
ConstructPipeline(buffer_bindings, fail) ==
  /\ proc = "running"
  /\ dev.status = "constructed"
  /\ pipe.status = "none"
  /\ LET c == create_descriptor_sets(
                create_descriptor_pool(
                  create_compute_pipeline(
                    create_descriptor_set_layout(
                      Running([pipe EXCEPT
                                 !.buffer_bindings = buffer_bindings]),
                      fail),
                    fail),
                  fail),
                fail)
     IN /\ pipe' = [c.d EXCEPT
                      !.status = IF c.err = "" THEN "constructed"
                                 ELSE "failed"]
        /\ calls' = c.calls
        /\ outcome' = [ op |-> "VulkanPipeline", obj |-> 0,
                        result |-> IF c.err = "" THEN "ok" ELSE "error",
                        error |-> c.err, returned |-> FALSE,
                        value |-> VK_NULL_HANDLE ]
  /\ UNCHANGED <<devVars, builders, cmdbufs, handles, submitted, gpu, proc>>

\* A faulty destructor: the layouts go before the pipeline made from them
\* and the descriptor set layout is never destroyed.
DestroyPipeline_leaky ==
  /\ proc = "running"
  /\ pipe.status = "constructed"
  /\ pipe' = [pipe EXCEPT
                !.status = "destroyed",
                !.live = @ \ { "descriptor_pool", "descriptor_set", "pipeline",
                               "pipeline_layout" },
                !.destroyed = @ \o << "descriptor_pool", "pipeline_layout",
                                      "pipeline" >>]
  /\ calls' = << VkCall("vkDestroyDescriptorPool", pipe.descriptor_pool_),
                 VkCall("vkDestroyPipelineLayout", pipe.pipeline_layout_),
                 VkCall("vkDestroyPipeline", pipe.pipeline_) >>
  /\ outcome' = [ op |-> "~VulkanPipeline", obj |-> 0, result |-> "ok",
                  error |-> "", returned |-> FALSE, value |-> VK_NULL_HANDLE ]
  /\ UNCHANGED <<devVars, builders, cmdbufs, handles, submitted, gpu, proc>>

\* VulkanPipeline::~VulkanPipeline().  Destroying the pool frees the set
\* allocated from it.
DestroyPipeline ==
  /\ proc = "running"
  /\ pipe.status = "constructed"
  /\ pipe' = [pipe EXCEPT
                !.status = "destroyed",
                !.live = @ \ { "descriptor_pool", "descriptor_set", "pipeline",
                               "pipeline_layout", "descriptor_set_layout" },
                !.destroyed = @ \o << "descriptor_pool", "pipeline",
                                      "pipeline_layout",
                                      "descriptor_set_layout" >>]
  /\ calls' = << VkCall("vkDestroyDescriptorPool", pipe.descriptor_pool_),
                 VkCall("vkDestroyPipeline", pipe.pipeline_),
                 VkCall("vkDestroyPipelineLayout", pipe.pipeline_layout_),
                 VkCall("vkDestroyDescriptorSetLayout",
                        pipe.descriptor_set_layout_) >>
  /\ outcome' = [ op |-> "~VulkanPipeline", obj |-> 0, result |-> "ok",
                  error |-> "", returned |-> FALSE, value |-> VK_NULL_HANDLE ]
  /\ UNCHANGED <<devVars, builders, cmdbufs, handles, submitted, gpu, proc>>

NextPipeline ==
  \/ \E buffer_bindings \in BindingLists, fail \in PipelineFailures :
       ConstructPipeline(buffer_bindings, fail)
  \/ DestroyPipeline

SpecPipeline == Init /\ [][NextPipeline]_vars

\* ---- the objects made against one device context, and its teardown by a
\* caller that destroys it last

\* The one binding list used where the bindings do not matter.
KernelBindings == << [ binding |-> 0, buffer |-> StorageBuffer ] >>

\* The caller has destroyed every pipeline and builder it constructed and
\* has made no launch since its last synchronize().
CallerIsDone ==
  /\ pipe.status # "constructed"
  /\ \A b \in 1..Len(builders) : builders[b].life # "alive"
  /\ Len(submitted) = 0 \/ outcome.op = "synchronize"

NextLifetime ==
  \/ /\ dev.status = "constructed"
     /\ \/ \E fail \in PipelineFailures : ConstructPipeline(KernelBindings, fail)
        \/ DestroyPipeline
        \/ RecordingStep(MaxCmdBufs, MaxAppends, 1, StreamAppendRequests,
                         StreamCopyRequests)
        \/ \E command \in handles \ {VK_NULL_HANDLE}, res \in SubmitResults :
             /\ Len(submitted) < MaxLaunches
             /\ Launch(command, res)
        \/ \E res \in WaitResults : Synchronize(res)
        \/ GpuStart
        \/ \E q \in Positions : GpuExec(q)
  \/ /\ proc = "running"
     /\ CallerIsDone
     /\ DestroyDevice

SpecLifetime == Init /\ [][NextLifetime]_vars

\* --------------------------------------- claims on recording and launching

\* C3: every command buffer vkQueueSubmit has accepted had its recording
\* ended before the submit (it is executable from the submit on).  launch
\* is handed only values build() or record_copy_buffer_command returned;
\* the null handle a repeated build() returns is no command buffer.
C3_SubmittedAreEnded ==
  \A k \in 1..Len(submitted) :
    submitted[k] # VK_NULL_HANDLE =>
      /\ cmdbufs[submitted[k]].state = "executable"
      /\ cmdbufs[submitted[k]].ends >= 1

\* C3's case: a built command buffer with recorded commands was launched.
C3_Witness ==
  /\ outcome.op = "launch"
  /\ outcome.result = "ok"
  /\ \E k \in 1..Len(submitted) :
       /\ submitted[k] # VK_NULL_HANDLE
       /\ Len(cmdbufs[submitted[k]].cmds) > 0

\* C4: on a builder whose build() is called at most once, exactly one
\* end-recording call is made on its command buffer over its lifetime: no
\* second one is ever made, a destroyed builder has had one, and once
\* build() has been called the destructor makes none.
C4_EndedExactlyOnce ==
  \A b \in 1..Len(builders) :
    builders[b].builds <= 1 =>
      /\ cmdbufs[builders[b].allocated].endCalls <= 1
      /\ builders[b].life = "destroyed" =>
           /\ cmdbufs[builders[b].allocated].endCalls = 1
           /\ cmdbufs[builders[b].allocated].ends = 1

\* The commands the requests handed to a builder stand for, in order.
RECURSIVE ExpectedCommands(_, _)
ExpectedCommands(kind, reqs) ==
  IF reqs = <<>> THEN <<>>
  ELSE (IF kind = "compute"
        THEN AppendCommands(reqs[1].pipeline, reqs[1].group_count_x)
        ELSE CopyCommands(reqs[1].src, reqs[1].dst, reqs[1].size,
                          reqs[1].direction))
       \o ExpectedCommands(kind, Tail(reqs))

\* What a first build() that returned must have done on builder b.
FirstBuildDone(b) ==
  /\ outcome.returned
  /\ outcome.value = builders[b].allocated
  /\ outcome.value # VK_NULL_HANDLE
  /\ builders[b].command_buffer_ = VK_NULL_HANDLE
  /\ cmdbufs[outcome.value].state = "executable"
  /\ cmdbufs[outcome.value].ends = 1
  /\ cmdbufs[outcome.value].cmds =
       ExpectedCommands(builders[b].kind, builders[b].appended)

\* C5: a first build() that returns has finalized the builder (its member
\* is cleared), has ended the recording, and returns the handle allocated
\* at construction, which holds exactly the appended operations in append
\* order; so does the build() inside record_copy_buffer_command.
C5_FirstBuild ==
  /\ ( /\ outcome.op = "build"
       /\ outcome.result = "ok"
       /\ builders[outcome.obj].builds = 1 ) => FirstBuildDone(outcome.obj)
  /\ ( /\ outcome.op = "record_copy_buffer_command"
       /\ outcome.result = "ok" ) => FirstBuildDone(outcome.obj)

\* C5's case: build() returned on a builder with two different appends.
C5_Witness ==
  /\ outcome.op = "build"
  /\ outcome.result = "ok"
  /\ builders[outcome.obj].builds = 1
  /\ Len(builders[outcome.obj].appended) = 2
  /\ builders[outcome.obj].appended[1] # builders[outcome.obj].appended[2]

\* Whether the operation that just ran was a build() on a builder that an
\* earlier build() had already finalized.
BuildAfterFinalize ==
  /\ outcome.op = "build"
  /\ builders[outcome.obj].finalized_at > 0
  /\ builders[outcome.obj].builds > builders[outcome.obj].finalized_at

\* C6 as claimed: a second build() is rejected with an error, makes no
\* end-recording call on any handle and returns no handle.
C6_SecondBuildRejected ==
  BuildAfterFinalize =>
    /\ outcome.result = "error"
    /\ ~outcome.returned
    /\ \A k \in 1..Len(calls) : calls[k].call # "vkEndCommandBuffer"

\* C6 as amended: a build() on a finalized builder makes one end-recording
\* call, on the null handle and never on the builder's command buffer; it
\* fails only if that call reports failure, and if it returns it returns
\* the null handle, never the command buffer's.
C6_SecondBuildOnNull ==
  BuildAfterFinalize =>
    /\ calls = << VkCall("vkEndCommandBuffer", VK_NULL_HANDLE) >>
    /\ cmdbufs[builders[outcome.obj].allocated].state = "executable"
    /\ builders[outcome.obj].command_buffer_ = VK_NULL_HANDLE
    /\ outcome.returned => outcome.value = VK_NULL_HANDLE
    /\ outcome.result = "ok" <=> outcome.returned

\* C6's case: the second build() returned.
C6_Witness ==
  /\ BuildAfterFinalize
  /\ outcome.result = "ok"
  /\ builders[outcome.obj].builds = 2

\* C7: no step changes the recorded contents of the command buffer of a
\* finalized builder.
C7_FinalizedIsFrozen ==
  [][ \A b \in 1..Len(builders) :
        builders[b].finalized_at > 0 =>
          cmdbufs'[builders[b].allocated].cmds =
            cmdbufs[builders[b].allocated].cmds ]_vars

\* C7's case: append() ran on a finalized builder and returned.
C7_Witness ==
  /\ outcome.op = "append"
  /\ outcome.result = "ok"
  /\ builders[outcome.obj].finalized_at > 0
  /\ Len(cmdbufs[builders[outcome.obj].allocated].cmds) = 0

\* The barrier append() is to record after its dispatch.
DispatchBarrier ==
  [ cmd |-> "vkCmdPipelineBarrier",
    srcStageMask |-> {"COMPUTE_SHADER"},
    dstStageMask |-> {"COMPUTE_SHADER", "TRANSFER"},
    srcAccessMask |-> {"SHADER_READ", "SHADER_WRITE"},
    dstAccessMask |-> {"SHADER_READ", "SHADER_WRITE", "TRANSFER_READ",
                       "TRANSFER_WRITE"} ]

\* Whether cs[k..k+3] is what one append(req) is to record.
IsAppendGroup(cs, k, req) ==
  /\ cs[k] = [ cmd |-> "vkCmdBindPipeline", bindPoint |-> "COMPUTE",
               pipeline |-> req.pipeline.pipeline_ ]
  /\ cs[k + 1] = [ cmd |-> "vkCmdBindDescriptorSets",
                   bindPoint |-> "COMPUTE",
                   layout |-> req.pipeline.pipeline_layout_,
                   firstSet |-> 0,
                   sets |-> << req.pipeline.descriptor_set_ >> ]
  /\ cs[k + 2] = [ cmd |-> "vkCmdDispatch", x |-> req.group_count_x,
                   y |-> 1, z |-> 1 ]
  /\ cs[k + 3] = DispatchBarrier

\* C8: in every command buffer each dispatch is immediately followed by
\* the compute-to-compute-and-transfer barrier; and the command buffer of
\* a compute builder whose recording never failed holds, per append made
\* while it was recording and in order, bind-pipeline, bind of the
\* pipeline's one descriptor set, dispatch (group_count_x, 1, 1) and that
\* barrier, and nothing else.
C8_AppendRecords ==
  /\ \A h \in 1..Len(cmdbufs) : \A k \in 1..Len(cmdbufs[h].cmds) :
       cmdbufs[h].cmds[k].cmd = "vkCmdDispatch" =>
         /\ k < Len(cmdbufs[h].cmds)
         /\ cmdbufs[h].cmds[k + 1] = DispatchBarrier
  /\ \A b \in 1..Len(builders) :
       ( /\ builders[b].kind = "compute"
         /\ cmdbufs[builders[b].allocated].endCalls =
              cmdbufs[builders[b].allocated].ends ) =>
         LET cs == cmdbufs[builders[b].allocated].cmds
         IN /\ Len(cs) % 4 = 0
            /\ Len(cs) <= 4 * Len(builders[b].appended)
            /\ builders[b].command_buffer_ # VK_NULL_HANDLE =>
                 Len(cs) = 4 * Len(builders[b].appended)
            /\ \A j \in 1..(Len(cs) \div 4) :
                 IsAppendGroup(cs, 4 * j - 3, builders[b].appended[j])

\* C8's case: two appends with different arguments were recorded.
C8_Witness ==
  \E b \in 1..Len(builders) :
    /\ builders[b].kind = "compute"
    /\ Len(builders[b].appended) = 2
    /\ builders[b].appended[1] # builders[b].appended[2]
    /\ Len(cmdbufs[builders[b].allocated].cmds) = 8

\* C9: the command buffer of a copy builder holds one copy of one region
\* with both offsets 0 and the given size, followed for a host-to-device
\* copy by the barrier from transfer-write at the transfer stage to
\* shader-read and transfer-read at the compute and transfer stages, and
\* by nothing for a device-to-host copy.
C9_CopyRecords ==
  \A b \in 1..Len(builders) :
    builders[b].kind = "copy" =>
      LET req == builders[b].appended[1]
          cs == cmdbufs[builders[b].allocated].cmds
      IN /\ Len(builders[b].appended) = 1
         /\ Len(cs) >= 1
         /\ cs[1] = [ cmd |-> "vkCmdCopyBuffer", srcBuffer |-> req.src,
                      dstBuffer |-> req.dst,
                      regions |-> << [ srcOffset |-> 0, dstOffset |-> 0,
                                       size |-> req.size ] >> ]
         /\ IF req.direction = "H2D"
            THEN /\ Len(cs) = 2
                 /\ cs[2] = [ cmd |-> "vkCmdPipelineBarrier",
                              srcStageMask |-> {"TRANSFER"},
                              dstStageMask |-> {"COMPUTE_SHADER", "TRANSFER"},
                              srcAccessMask |-> {"TRANSFER_WRITE"},
                              dstAccessMask |-> {"SHADER_READ",
                                                 "TRANSFER_READ"} ]
            ELSE Len(cs) = 1

\* C9's case: a host-to-device copy was recorded and its handle returned.
C9_Witness ==
  /\ outcome.op = "record_copy_buffer_command"
  /\ outcome.result = "ok"
  /\ builders[outcome.obj].appended[1].direction = "H2D"
  /\ Len(cmdbufs[outcome.value].cmds) = 2

\* The three recordings of the scenario were launched, in order.
ScenarioLaunched ==
  /\ Len(submitted) = 3
  /\ \A k \in 1..3 : submitted[k] # VK_NULL_HANDLE
  /\ cmdbufs[submitted[1]].cmds[1].cmd = "vkCmdCopyBuffer"
  /\ cmdbufs[submitted[1]].cmds[1].dstBuffer = "B"
  /\ \E i \in 1..Len(cmdbufs[submitted[2]].cmds) :
       cmdbufs[submitted[2]].cmds[i].cmd = "vkCmdDispatch"
  /\ cmdbufs[submitted[3]].cmds[1].cmd = "vkCmdCopyBuffer"
  /\ cmdbufs[submitted[3]].cmds[1].srcBuffer = "B"
  /\ cmdbufs[submitted[3]].cmds[1].dstBuffer = "H"

\* C10: in the scenario the dispatch reads what the copy into "B" wrote,
\* the read-back copy reads what the dispatch wrote, and once
\* synchronize() has returned after the three launches the host-visible
\* buffer "H" holds the doubled contents of "A".
C10_EndToEnd ==
  /\ \A t \in gpu.seen :
       /\ t[1] = 2 => t[3] = gpu.mem["A"]
       /\ t[1] = 3 => t[3] = 2 * gpu.mem["A"]
  /\ (ScenarioLaunched /\ outcome.op = "synchronize") =>
       gpu.mem["H"] = 2 * gpu.mem["A"]

\* ------------------------------------------------- claims on the stream

\* C11: a launch() makes exactly one call, a vkQueueSubmit on the device's
\* compute queue of one batch holding the one given command buffer, with
\* no wait or signal semaphore and no fence; a launch() that returned has
\* appended that command buffer to the queue's submissions.
C11_LaunchSubmitsOne ==
  outcome.op = "launch" =>
    /\ calls = << [ call |-> "vkQueueSubmit", arg |-> dev.compute_queue_,
                    submitCount |-> 1,
                    pSubmits |-> << [ waitSemaphores |-> <<>>,
                                      commandBuffers |-> << outcome.obj >>,
                                      signalSemaphores |-> <<>> ] >>,
                    fence |-> VK_NULL_HANDLE ] >>
    /\ outcome.result = "ok" =>
         /\ Len(submitted) >= 1
         /\ submitted[Len(submitted)] = outcome.obj

\* C11's case: the second launch() returned while neither submission has
\* completed (the first has not even started).
C11_Witness ==
  /\ outcome.op = "launch"
  /\ outcome.result = "ok"
  /\ Len(submitted) = 2
  /\ gpu.started = 0
  /\ ~Completed(1)
  /\ ~Completed(2)

\* C12: whenever synchronize() has returned, every command buffer launched
\* before the call has completed execution.
C12_SynchronizeWaits ==
  outcome.op = "synchronize" => QueueIdle

\* C13: launch() never waits for the queue; a synchronize() that was
\* called returns when the queue keeps making progress; and a
\* synchronize() that has returned did not leave a submission behind that
\* never completes (it has no timeout and no other way out).
C13_SynchronizeBlocks ==
  /\ [](HostAt = "launch" =>
          ENABLED (\E res \in SubmitResults :
                     Launch(builders[Len(submitted) + 1].allocated, res)))
  /\ (HostAt = "synchronize") ~> (outcome.op = "synchronize")
  /\ [](outcome.op = "synchronize" => <>QueueIdle)

\* C14: the queue holds the command buffers in the order of the launch()
\* calls and executes them in that order: a launch() that returns puts its
\* command buffer behind every earlier one, not yet started; no step
\* reorders or drops a submission; the submissions that have started are
\* the earliest ones, and only commands of started submissions execute.
C14_SubmissionOrder ==
  [][ /\ Len(submitted') >= Len(submitted)
      /\ \A k \in 1..Len(submitted) : submitted'[k] = submitted[k]
      /\ Len(submitted') > Len(submitted) =>
           /\ outcome'.op = "launch"
           /\ submitted' = Append(submitted, outcome'.obj)
           /\ gpu'.started <= Len(submitted)
      /\ gpu'.started >= gpu.started
      /\ gpu'.started <= Len(submitted')
      /\ \A q \in gpu'.done : q[1] <= gpu'.started ]_vars

\* C14's case: two different command buffers were launched, both have
\* started, and a command of the later one has executed.
C14_Witness ==
  /\ Len(submitted) >= 2
  /\ submitted[1] # submitted[2]
  /\ gpu.started >= 2
  /\ \E q \in gpu.done : q[1] = 2

\* ------------------------------------------------ claims on the pipeline

\* The calls of the given name made by the operation that ran last.
CallsNamed(name) == SelectSeq(calls, LAMBDA r : r.call = name)

\* C15: a pipeline constructed from N binding descriptors has created one
\* descriptor pool, for at most one set and exactly N storage-buffer
\* descriptors, has allocated exactly one descriptor set from it, and has
\* issued exactly N descriptor writes in one update, the i-th writing the
\* i-th descriptor's buffer into the i-th descriptor's slot of that set.
C15_DescriptorsMatchBindings ==
  (outcome.op = "VulkanPipeline" /\ outcome.result = "ok") =>
    LET N == Len(pipe.buffer_bindings)
        pools == CallsNamed("vkCreateDescriptorPool")
        allocs == CallsNamed("vkAllocateDescriptorSets")
        updates == CallsNamed("vkUpdateDescriptorSets")
    IN /\ Len(pools) = 1
       /\ pools[1].maxSets = 1
       /\ pools[1].pPoolSizes =
            << [ type |-> "STORAGE_BUFFER", descriptorCount |-> N ] >>
       /\ Len(allocs) = 1
       /\ allocs[1].descriptorSetCount = 1
       /\ allocs[1].descriptorPool = pipe.descriptor_pool_
       /\ Len(updates) = 1
       /\ Len(updates[1].pDescriptorWrites) = N
       /\ \A i \in 1..N :
            LET w == updates[1].pDescriptorWrites[i]
            IN /\ w.dstSet = pipe.descriptor_set_
               /\ w.dstBinding = pipe.buffer_bindings[i].binding
               /\ w.descriptorCount = 1
               /\ w.descriptorType = "STORAGE_BUFFER"
               /\ w.pBufferInfo.buffer = pipe.buffer_bindings[i].buffer
       /\ pipe.bound = { pipe.buffer_bindings[i] : i \in 1..N }

\* C15's case: a pipeline of two bindings to different buffers, the slots
\* not in increasing order, was constructed.
C15_Witness ==
  /\ outcome.op = "VulkanPipeline"
  /\ outcome.result = "ok"
  /\ Len(pipe.buffer_bindings) = 2
  /\ pipe.buffer_bindings[1].binding > pipe.buffer_bindings[2].binding
  /\ pipe.buffer_bindings[1].buffer # pipe.buffer_bindings[2].buffer

\* C16: a VulkanPipeline construction that fails has made no call after
\* the failing one and leaves no driver object it created alive, the
\* shader module included.
C16_FailedConstructionUnwinds ==
  (outcome.op = "VulkanPipeline" /\ outcome.result = "error") =>
    /\ calls[Len(calls)].call \in PipelineFailures
    /\ pipe.live = {}

\* ------------------------------------------- claims on failures and teardown

\* The driver call behind each error message of BAIL_ON_VK_BAD_RESULT.
ErrorCall ==
  [ e \in { "failed to allocate command buffer",
            "failed to begin recording command buffer",
            "failed to record command buffer",
            "failed to submit command buffer" } |->
      CASE e = "failed to allocate command buffer" -> "vkAllocateCommandBuffers"
        [] e = "failed to begin recording command buffer"
             -> "vkBeginCommandBuffer"
        [] e = "failed to record command buffer" -> "vkEndCommandBuffer"
        [] OTHER -> "vkQueueSubmit" ]

\* C17: no failure result is ignored and a failure ends the operation: a
\* driver call of the operation that ran last that reported failure is its
\* last call and the operation ended in an error; a builder construction,
\* build() or launch() that ended in an error made the failing call once,
\* as its last call.
C17_FailuresAreFatal ==
  /\ \A k \in 1..Len(calls) :
       ("result" \in DOMAIN calls[k] /\ calls[k].result # "VK_SUCCESS") =>
         /\ k = Len(calls)
         /\ outcome.result = "error"
  /\ ( /\ outcome.op \in {"VulkanCommandBuilder", "build", "launch"}
       /\ outcome.result = "error" ) =>
       /\ calls[Len(calls)].call = ErrorCall[outcome.error]
       /\ Len(CallsNamed(ErrorCall[outcome.error])) = 1

\* C18: once the device context is destroyed no pipeline or builder
\* constructed against it is alive, no driver object created from its
\* device by a pipeline exists, and no submitted work is pending.
C18_DeviceOutlives ==
  dev.status = "destroyed" =>
    /\ pipe.status # "constructed"
    /\ pipe.live = {}
    /\ \A b \in 1..Len(builders) : builders[b].life # "alive"
    /\ QueueIdle

\* The position of the one call of the given name among the calls of the
\* operation that ran last.
CallIndex(name) == CHOOSE k \in 1..Len(calls) : calls[k].call = name

\* The destroy call of each owned object of the device context, in the
\* order the constructor creates the objects.
DeviceTeardownCalls ==
  << "vkDestroyInstance", "vkDestroyDebugUtilsMessengerEXT",
     "vkDestroyDevice", "vkDestroyCommandPool" >>

\* Each owned object of the device context was destroyed exactly once.
DeviceDestroyedOnce ==
  /\ Len(calls) = 4
  /\ \A i \in 1..4 : Len(CallsNamed(DeviceTeardownCalls[i])) = 1

\* C19 as claimed: the destructor destroys each owned object once, every
\* object before any object created earlier than it.
C19_StrictReverseOrder ==
  outcome.op = "~ManagedVulkanDevice" =>
    /\ DeviceDestroyedOnce
    /\ \A i, j \in 1..4 :
         i < j => CallIndex(DeviceTeardownCalls[j]) <
                    CallIndex(DeviceTeardownCalls[i])

\* C19 as amended: the constructor creates instance, debug messenger,
\* logical device and command pool in that order; the destructor destroys
\* each once, in the order debug messenger, command pool, logical device,
\* instance: the pool before the device before the instance and the
\* messenger while its instance is alive, but the messenger first.
C19_TeardownOrder ==
  /\ (outcome.op = "ManagedVulkanDevice" /\ outcome.result = "ok") =>
       /\ CallIndex("vkCreateInstance") <
            CallIndex("vkCreateDebugUtilsMessengerEXT")
       /\ CallIndex("vkCreateDebugUtilsMessengerEXT") <
            CallIndex("vkCreateDevice")
       /\ CallIndex("vkCreateDevice") < CallIndex("vkCreateCommandPool")
  /\ outcome.op = "~ManagedVulkanDevice" =>
       /\ DeviceDestroyedOnce
       /\ calls[1] = VkCall("vkDestroyDebugUtilsMessengerEXT",
                            dev.debug_messenger_)
       /\ calls[2] = VkCall("vkDestroyCommandPool", dev.command_pool_)
       /\ calls[3] = VkCall("vkDestroyDevice", dev.device_)
       /\ calls[4] = VkCall("vkDestroyInstance", dev.instance_)

\* C19's case: a constructed device context was destroyed.
C19_Witness ==
  /\ outcome.op = "~ManagedVulkanDevice"
  /\ dev.status = "destroyed"
  /\ dev.command_pool_ # VK_NULL_HANDLE

\* How often the pipeline destroyed the given object.
TimesDestroyed(object) ==
  Cardinality({ k \in 1..Len(pipe.destroyed) : pipe.destroyed[k] = object })

\* C20: when construction of a pipeline has returned, its shader module is
\* created and destroyed again; the destructor of a constructed pipeline
\* destroys descriptor pool, pipeline, pipeline layout and descriptor set
\* layout in that order, each once, and leaves no object of the pipeline
\* live.
C20_PipelineTeardown ==
  /\ (outcome.op = "VulkanPipeline" /\ pipe.status = "constructed") =>
       /\ "shader_module" \notin pipe.live
       /\ TimesDestroyed("shader_module") = 1
       /\ Len(CallsNamed("vkDestroyShaderModule")) = 1
       /\ CallIndex("vkCreateComputePipelines") <
            CallIndex("vkDestroyShaderModule")
  /\ outcome.op = "~VulkanPipeline" =>
       /\ calls = << VkCall("vkDestroyDescriptorPool", pipe.descriptor_pool_),
                     VkCall("vkDestroyPipeline", pipe.pipeline_),
                     VkCall("vkDestroyPipelineLayout", pipe.pipeline_layout_),
                     VkCall("vkDestroyDescriptorSetLayout",
                            pipe.descriptor_set_layout_) >>
       /\ pipe.destroyed = << "shader_module", "descriptor_pool", "pipeline",
                              "pipeline_layout", "descriptor_set_layout" >>
       /\ pipe.live = {}

\* C20's case: a pipeline with two bindings was constructed and destroyed.
C20_Witness ==
  /\ outcome.op = "~VulkanPipeline"
  /\ pipe.status = "destroyed"
  /\ Len(pipe.buffer_bindings) = 2
  /\ pipe.descriptor_pool_ # VK_NULL_HANDLE

\* The submissions of command buffer h, by their place on the queue.
LaunchesOf(h) == { k \in 1..Len(submitted) : submitted[k] = h }

\* C21: a launch() of a handle that build() returned is accepted also
\* while earlier submissions of the handle are pending, and adds one
\* pending execution of it behind them; when a following synchronize() has
\* returned, all executions of a handle launched several times have
\* completed.
C21_RelaunchWhilePending ==
  /\ outcome.op = "launch" => outcome.result # "terminated"
  /\ (outcome.op = "launch" /\ outcome.result = "ok") =>
       /\ Len(submitted) \in LaunchesOf(outcome.obj)
  /\ outcome.op = "synchronize" =>
       \A h \in handles :
         Cardinality(LaunchesOf(h)) >= 2 =>
           \A k \in LaunchesOf(h) : Completed(k)

\* ----------------------------------------- claims on device extensions

\* Whether the constructor that ran last got as far as the extension query
\* of create_logical_device().
QueriedExtensions ==
  /\ outcome.op = "ManagedVulkanDevice"
  /\ Len(CallsNamed("vkEnumerateDeviceExtensionProperties")) = 2

\* What the device reported and what the constructor asked vkCreateDevice
\* to enable.
ReportedExtensions ==
  LET l == CallsNamed("vkEnumerateDeviceExtensionProperties")[2].pProperties
  IN  { l[i] : i \in 1..Len(l) }

RequestedExtensions ==
  LET l == CallsNamed("vkCreateDevice")[1].ppEnabledExtensionNames
  IN  { l[i] : i \in 1..Len(l) }

\* The allow-list as claimed, and the names the loop enables.
ClaimedAllowList ==
  { "VK_KHR_portability_subset", "VK_KHR_surface", "VK_KHR_swapchain",
    "VK_EXT_shader_atomic_float", "VK_KHR_shader_atomic_int64",
    "VK_KHR_synchronization2", "VK_KHR_variable_pointers" }

CodeAllowList == ClaimedAllowList \cup { "VK_NV_external_memory_capabilities" }

\* C22 as claimed: the extensions enabled on the logical device are the
\* reported ones that are on the allow-list of seven names, none outside
\* it, and device creation goes on when variable-pointers is not reported.
C22_ClaimedExtensions ==
  QueriedExtensions =>
    /\ Len(CallsNamed("vkCreateDevice")) = 1
    /\ RequestedExtensions = ReportedExtensions \cap ClaimedAllowList
    /\ RequestedExtensions \subseteq ClaimedAllowList

\* C22 as amended: the extensions enabled on the logical device are the
\* reported ones that are on the allow-list of the seven claimed names and
\* VK_NV_external_memory_capabilities, each once, none outside it; and
\* whatever is reported, variable-pointers or not, vkCreateDevice is called
\* and no error other than a failed Vulkan call ends the construction.
C22_EnabledExtensions ==
  QueriedExtensions =>
    /\ Len(CallsNamed("vkCreateDevice")) = 1
    /\ RequestedExtensions = ReportedExtensions \cap CodeAllowList
    /\ Len(CallsNamed("vkCreateDevice")[1].ppEnabledExtensionNames) =
         Cardinality(RequestedExtensions)
    /\ outcome.error \in { "", "failed to create logical device",
                           "failed to create command pool" }

\* C22's case: a device context was constructed on a device that reports
\* an extension off the allow-list and no variable-pointers.
C22_Witness ==
  /\ QueriedExtensions
  /\ dev.status = "constructed"
  /\ VK_KHR_VARIABLE_POINTERS_EXTENSION_NAME \notin ReportedExtensions
  /\ VK_KHR_MAINTENANCE1_EXTENSION_NAME \in ReportedExtensions
  /\ RequestedExtensions # {}

\* ------------------------------------- claims on the command buffer pool

\* The driver calls that return a command buffer to its pool or reset it.
ReleaseCalls ==
  { "vkFreeCommandBuffers", "vkResetCommandBuffer", "vkResetCommandPool" }

\* C23: while the device context is alive no operation frees or resets a
\* command buffer, every builder holds a command buffer of its own, and
\* the command buffers allocated from the pool are as many as the builders
\* that were constructed.
C23_AllocatedMatchBuilders ==
  dev.status = "constructed" =>
    /\ \A i \in 1..Len(calls) : calls[i].call \notin ReleaseCalls
    /\ \A b \in 1..Len(builders) :
         /\ builders[b].allocated \in 1..Len(cmdbufs)
         /\ \A b2 \in 1..Len(builders) :
              b2 # b => builders[b2].allocated # builders[b].allocated
    /\ Len(cmdbufs) = Len(builders)

====
